---- MODULE Spec2Model ----
(***************************************************************************)
(* Model of script.js: the hero slider and its autoplay, the school-choice *)
(* slider, the lazily activated exhibition-benefits slider, the             *)
(* intersection observer that reveals sections and activates the benefits  *)
(* slider, the logo strip, the enquiry form, the header and init().        *)
(*                                                                         *)
(* Every class instance is a record (the object's fields plus the closure  *)
(* variables of its listeners); every method is an operator from the       *)
(* record (this) to the record after the call.  An action is one DOM event *)
(* with all the listeners the code registered for it, in registration      *)
(* order.                                                                  *)
(*                                                                         *)
(* The sliders share no state: every handler reads and writes its own      *)
(* object only.  A behaviour is therefore a page that holds one of them    *)
(* (dom, one of Pages); a slider whose container is absent is never        *)
(* constructed, its variable keeps a placeholder and no event reaches it.  *)
(***************************************************************************)
EXTENDS Integers, FiniteSets, Sequences, TLC

VARIABLES
    dom,             \* the elements the document holds (fixed at load)
    innerWidth,      \* window.innerWidth
    reducedMotion,   \* result of prefersReducedMotion()
    visible,         \* sections currently intersecting the viewport (>= 10%)
    touch,           \* the finger on the screen: target element and position
    hero,            \* the HeroSlider instance
    choose,          \* the ChooseSchoolSlider instance
    benefits,        \* window.__benefitsSlider (ExhibitionBenefitsSlider)
    observer,        \* the IntersectionObserver of initScrollAnimations
    animateIn,       \* per section: number of classList.add('animate-in') calls
    paired,          \* whether a second run of the page is fed the same events
    twinChoose,      \* that second run, under the opposite motion preference:
    twinBenefits,    \*   its sliders,
    twinObserver,    \*   and its observer
    form,            \* the FormValidator instance and the form it validates
    header,          \* the header, window.scrollY and the closure that styles it
    logos,           \* the logo strip, its setupContainer closure and the pointer
    startup,         \* the progress of init() through the widgets
    sinceResize      \* time (ms) since the latest resize event

vars == <<dom, innerWidth, reducedMotion, visible, touch, hero, choose, benefits,
          observer, animateIn, paired, twinChoose, twinBenefits, twinObserver,
          form, header, logos, startup, sinceResize>>

twinVars == <<twinChoose, twinBenefits, twinObserver>>

----------------------------------------------------------------------------
(* Bounds of the model *)

NumSlides == 3          \* .hero__slide elements
NumCards == 3           \* cards of each card slider
NumDots == 3            \* .choose-school__dot elements
MaxTranslate == 120     \* |currentTranslate| is kept within this many pixels
MaxAdds == 2            \* the animate-in counter saturates here
MaxInitCalls == 2       \* the count of init() calls on the benefits slider saturates here

\* Viewport widths, one per bucket of getCardsPerView.
Widths == {500, 900, 1400}

\* Pointer and touch x coordinates (pageX / screenX).
Xs == {0, 60}

\* Wheel deltas (deltaX, deltaY).
WheelDeltas == {<<0, 6>>, <<0, -6>>, <<0, 5>>, <<0, -5>>, <<7, 6>>}

\* The observed sections; "stats" stands for the four sections without a slider hook.
Sections == {"stats", "exhibition-benefits"}

\* The documents modelled: "hero", "choose" and "benefits" are the slider
\* containers, each with its track, items and controls.
Pages == {{"hero"}, {"choose"}, {"stats", "exhibition-benefits", "benefits"}}

----------------------------------------------------------------------------
(* Program constants *)

SwipeThreshold == 50    \* const threshold = 50
Gap == 24               \* const gap = 24
CardWidth == 76         \* this.cards[0].offsetWidth, as laid out by the style sheet

Abs(n) == IF n < 0 THEN -n ELSE n
Max(a, b) == IF a > b THEN a ELSE b
Min(a, b) == IF a < b THEN a ELSE b

\* Math.round(n / d) for d > 0: rounds half towards +Infinity.
Round(n, d) == (2 * n + d) \div (2 * d)

----------------------------------------------------------------------------
(* debounce(func, wait) *)

ResizeWait == 250       \* debounce(..., 250) of both handleResize methods

\* The closure of one debounced function:
\*   timers   the time left (ms) on each pending timer it has set, oldest first
\*   current  whether `timeout` names a pending timer (then the newest one)
DB_idle == [timers |-> <<>>, current |-> FALSE]

DB_pending(db) == db.timers # <<>>

DB_clearTimeout(db) ==
    IF db.current
    THEN [timers |-> SubSeq(db.timers, 1, Len(db.timers) - 1), current |-> FALSE]
    ELSE db

\* executedFunction without its clearTimeout.
DB_call_noClear(db, wait) ==
    [timers |-> Append(db.timers, wait), current |-> TRUE]

\* executedFunction: clearTimeout(timeout); timeout = setTimeout(later, wait).
DB_call(db, wait) ==
    [timers |-> Append(DB_clearTimeout(db).timers, wait), current |-> TRUE]

\* The oldest pending timer fires: later() calls clearTimeout(timeout), which
\* finds the timer that fired itself unless a newer one is pending.
DB_later(db) ==
    IF Len(db.timers) = 1
    THEN DB_idle
    ELSE DB_clearTimeout([db EXCEPT !.timers = Tail(@)])

\* Time passes.
DB_elapse(db, d) == [db EXCEPT !.timers = [i \in 1..Len(@) |-> @[i] - d]]

\* d ms can pass without a pending timer becoming overdue.
DB_canElapse(db, d) == \A i \in 1..Len(db.timers) : db.timers[i] >= d

DB_due(db) == DB_pending(db) /\ db.timers[1] = 0

\* The oldest pending timer fires; its callback leaves the handle alone.
DB_expire(db) ==
    [timers |-> Tail(db.timers), current |-> db.current /\ Len(db.timers) > 1]

----------------------------------------------------------------------------
(* HeroSlider *)

AutoplayDelay == 5000   \* this.autoplayDelay = 5000

\* clearInterval(this.autoplayInterval); this.autoplayInterval = null.
\*   autoplay.timers   the time left (ms) on each running interval, oldest first
\*   autoplay.current  whether autoplayInterval is set (it names the newest)
HS_stopAutoplay(self) == [self EXCEPT !.autoplay = DB_clearTimeout(@)]

\* startAutoplay without its call of stopAutoplay.
HS_startAutoplay_noStop(self, rm) ==
    IF rm THEN self
    ELSE [self EXCEPT !.autoplay = [timers |-> Append(@.timers, AutoplayDelay),
                                    current |-> TRUE]]

HS_startAutoplay(self, rm) ==
    IF rm THEN self
    ELSE [self EXCEPT !.autoplay =
              [timers |-> Append(DB_clearTimeout(@).timers, AutoplayDelay),
               current |-> TRUE]]

HS_pauseAutoplay(self) == HS_stopAutoplay(self)

HS_toggleAutoplay(self, rm) ==
    IF ~self.isPaused
    THEN HS_stopAutoplay([self EXCEPT !.isPaused = TRUE])
    ELSE HS_startAutoplay([self EXCEPT !.isPaused = FALSE], rm)

\* constructor followed by init(): autoplay starts unless reduced motion is
\* preferred.  `hovered` is the pointer being over the container.
HS_constructor(rm) ==
    HS_startAutoplay(
        [currentSlide |-> 0,
         touchStartX |-> 0,
         isPaused |-> FALSE,
         autoplay |-> DB_idle,
         hovered |-> FALSE], rm)

HS_goToNextSlide(self) ==
    [self EXCEPT !.currentSlide = (self.currentSlide + 1) % NumSlides]

\* Variant: (currentSlide - 1) % length, whose remainder keeps the sign in
\* JavaScript, so slide 0 goes to -1 instead of the last slide.
HS_goToPrevSlide_signed(self) ==
    [self EXCEPT !.currentSlide = self.currentSlide - 1]

HS_goToPrevSlide(self) ==
    [self EXCEPT !.currentSlide = (self.currentSlide - 1 + NumSlides) % NumSlides]

HS_handleSwipe(self, startX, endX) ==
    LET diff == startX - endX IN
    IF Abs(diff) > SwipeThreshold
    THEN IF diff > 0 THEN HS_goToNextSlide(self) ELSE HS_goToPrevSlide(self)
    ELSE self

\* keydown listener of the container (the space key is not an index operation).
HS_onKeydown(self, key) ==
    IF key = "ArrowLeft" THEN HS_goToPrevSlide(self)
    ELSE IF key = "ArrowRight" THEN HS_goToNextSlide(self)
    ELSE self

HS_onTouchStart(self, x) == [self EXCEPT !.touchStartX = x]

HS_onTouchEnd(self, x) == HS_handleSwipe(self, self.touchStartX, x)

\* mouseenter and mouseleave listeners of the container.
HS_onMouseEnter(self) == HS_pauseAutoplay([self EXCEPT !.hovered = TRUE])

\* Variant: mouseleave restarts autoplay whether paused or not.
HS_onMouseLeave_unguarded(self, rm) ==
    HS_startAutoplay([self EXCEPT !.hovered = FALSE], rm)

HS_onMouseLeave(self, rm) ==
    IF ~self.isPaused
    THEN HS_startAutoplay([self EXCEPT !.hovered = FALSE], rm)
    ELSE [self EXCEPT !.hovered = FALSE]

\* Running interval i fires and is rescheduled.
HS_onInterval(self, i) ==
    HS_goToNextSlide([self EXCEPT !.autoplay.timers[i] = AutoplayDelay])

HS_elapse(self, d) == [self EXCEPT !.autoplay = DB_elapse(@, d)]

----------------------------------------------------------------------------
(* ChooseSchoolSlider *)

\* Variant: the breakpoints taken inclusively.
CS_getCardsPerView_inclusive(width) ==
    IF width <= 480 THEN 1
    ELSE IF width <= 768 THEN 1
    ELSE IF width <= 1024 THEN 2
    ELSE 4

CS_getCardsPerView(width) ==
    IF width < 480 THEN 1
    ELSE IF width < 768 THEN 1
    ELSE IF width < 1024 THEN 2
    ELSE 4

CS_updateSlider(self, rm) ==
    [self EXCEPT
        !.transform = -(self.currentIndex * (CardWidth + Gap)),
        !.transition = IF rm THEN "none" ELSE @,
        !.activeDots = {i \in 0..(NumDots - 1) : i = self.currentIndex},
        !.prevDisabled = (self.currentIndex = 0),
        !.nextDisabled = (self.currentIndex = self.maxIndex)]

\* constructor followed by init(): listeners, first render, resize listener.
CS_constructor(width, rm) ==
    CS_updateSlider(
        [currentIndex |-> 0,
         cardsPerView |-> CS_getCardsPerView(width),
         maxIndex |-> Max(0, NumCards - CS_getCardsPerView(width)),
         transform |-> 0,
         transition |-> "",
         activeDots |-> {},
         prevDisabled |-> FALSE,
         nextDisabled |-> FALSE,
         touchStartX |-> 0,
         resizeTimer |-> DB_idle], rm)

CS_goToNext(self, rm) ==
    IF self.currentIndex < self.maxIndex
    THEN CS_updateSlider([self EXCEPT !.currentIndex = @ + 1], rm)
    ELSE self

CS_goToPrev(self, rm) ==
    IF self.currentIndex > 0
    THEN CS_updateSlider([self EXCEPT !.currentIndex = @ - 1], rm)
    ELSE self

\* goToIndex without Math.min.
CS_goToIndex_unclamped(self, index, rm) ==
    CS_updateSlider([self EXCEPT !.currentIndex = index], rm)

CS_goToIndex(self, index, rm) ==
    CS_updateSlider([self EXCEPT !.currentIndex = Min(index, self.maxIndex)], rm)

CS_handleSwipe(self, startX, endX, rm) ==
    LET diff == startX - endX IN
    IF Abs(diff) > SwipeThreshold
    THEN IF diff > 0 THEN CS_goToNext(self, rm) ELSE CS_goToPrev(self, rm)
    ELSE self

CS_onKeydown(self, key, rm) ==
    IF key = "ArrowLeft" THEN CS_goToPrev(self, rm)
    ELSE IF key = "ArrowRight" THEN CS_goToNext(self, rm)
    ELSE self

CS_onTouchStart(self, x) == [self EXCEPT !.touchStartX = x]

CS_onTouchEnd(self, x, rm) == CS_handleSwipe(self, self.touchStartX, x, rm)

\* The debounced resize listener: clearTimeout, then setTimeout(later, 250).
CS_onResize(self) == [self EXCEPT !.resizeTimer = DB_call(@, ResizeWait)]

\* The timer fires: later() runs the callback given to debounce.
CS_resizeLater(self, width, rm) ==
    LET cpv == CS_getCardsPerView(width)
        mx == Max(0, NumCards - cpv)
    IN CS_updateSlider(
           [self EXCEPT !.resizeTimer = DB_later(@),
                        !.cardsPerView = cpv,
                        !.maxIndex = mx,
                        !.currentIndex = Min(self.currentIndex, mx)], rm)

----------------------------------------------------------------------------
(* ExhibitionBenefitsSlider *)

EB_getCardsPerView(width) ==
    IF width < 480 THEN 1
    ELSE IF width < 768 THEN 1
    ELSE IF width < 1024 THEN 2
    ELSE 4

EB_updateSlider(self, rm) ==
    [self EXCEPT
        !.rendered = TRUE,
        !.transform = -(self.currentIndex * (CardWidth + Gap)),
        !.transition = IF rm THEN "none" ELSE @,
        !.prevDisabled = (self.currentIndex = 0),
        !.nextDisabled = (self.currentIndex = self.maxIndex)]

\* Variant: init() without its _activated guard (a third set of listeners is
\* not told apart from a second).
EB_init_unguarded(self, rm) ==
    EB_updateSlider(
        [self EXCEPT !.initCalls = Min(@ + 1, MaxInitCalls),
                     !.activated = TRUE,
                     !.listeners = Min(@ + 1, 2)], rm)

\* init(): guarded by _activated; attaches the listeners (setupEventListeners and
\* handleResize), renders once.  The track and the cards are present.
\* initCalls counts the calls (it is not a field of the object).
EB_init(self, rm) ==
    LET called == [self EXCEPT !.initCalls = Min(@ + 1, MaxInitCalls)] IN
    IF self.activated THEN called
    ELSE EB_updateSlider(
             [called EXCEPT !.activated = TRUE, !.listeners = @ + 1], rm)

EB_constructor(width, autoInit, rm) ==
    LET this == [currentIndex |-> 0,
                 cardsPerView |-> EB_getCardsPerView(width),
                 maxIndex |-> Max(0, NumCards - EB_getCardsPerView(width)),
                 activated |-> FALSE,
                 initCalls |-> 0,
                 listeners |-> 0,
                 rendered |-> FALSE,
                 transform |-> 0,
                 transition |-> "",
                 prevDisabled |-> FALSE,
                 nextDisabled |-> FALSE,
                 touchStartX |-> 0,
                 isDragging |-> FALSE,
                 startX |-> 0,
                 prevTranslate |-> 0,
                 currentTranslate |-> 0,
                 resizeTimer |-> DB_idle]
    IN IF autoInit THEN EB_init(this, rm) ELSE this

EB_goToNext(self, rm) ==
    IF self.currentIndex < self.maxIndex
    THEN EB_updateSlider([self EXCEPT !.currentIndex = @ + 1], rm)
    ELSE self

EB_goToPrev(self, rm) ==
    IF self.currentIndex > 0
    THEN EB_updateSlider([self EXCEPT !.currentIndex = @ - 1], rm)
    ELSE self

EB_handleSwipe(self, startX, endX, rm) ==
    LET diff == startX - endX IN
    IF Abs(diff) > SwipeThreshold
    THEN IF diff > 0 THEN EB_goToNext(self, rm) ELSE EB_goToPrev(self, rm)
    ELSE self

EB_onPointerDown(self, x) ==
    [self EXCEPT !.isDragging = TRUE,
                 !.startX = x,
                 !.prevTranslate = self.currentTranslate,
                 !.transition = "none"]

EB_onPointerMove(self, x) ==
    IF ~self.isDragging THEN self
    ELSE LET movedBy == x - self.startX IN
         [self EXCEPT !.currentTranslate = self.prevTranslate + movedBy,
                      !.transform = self.prevTranslate + movedBy]

\* Variant: the release takes the nearest slide without clamping it.
EB_onPointerUp_unclamped(self, rm) ==
    IF ~self.isDragging THEN self
    ELSE LET slideWidth == CardWidth + Gap
             index == Round(-self.currentTranslate, slideWidth)
         IN EB_updateSlider(
                [self EXCEPT !.isDragging = FALSE,
                             !.transition = "",
                             !.currentIndex = index], rm)

\* Variant: the release stores the index without calling updateSlider.
EB_onPointerUp_noUpdate(self, rm) ==
    IF ~self.isDragging THEN self
    ELSE LET slideWidth == CardWidth + Gap
             index == Round(-self.currentTranslate, slideWidth)
         IN [self EXCEPT !.isDragging = FALSE,
                         !.transition = "",
                         !.currentIndex = Max(0, Min(self.maxIndex, index))]

EB_onPointerUp(self, rm) ==
    IF ~self.isDragging THEN self
    ELSE LET slideWidth == CardWidth + Gap
             index == Round(-self.currentTranslate, slideWidth)
         IN EB_updateSlider(
                [self EXCEPT !.isDragging = FALSE,
                             !.transition = "",
                             !.currentIndex = Max(0, Min(self.maxIndex, index))], rm)

\* Variant: the listeners are attached by the constructor.
EB_listening_always(self) == TRUE

\* An event reaches a handler only once setupEventListeners has run.
EB_listening(self) == self.listeners > 0

\* The listeners of the click, wheel and keydown events (e is the event).
EB_wheelListener(self, deltaX, deltaY, rm) ==
    IF Abs(deltaY) > Abs(deltaX)
    THEN IF deltaY > 5 THEN EB_goToNext(self, rm)
         ELSE IF deltaY < -5 THEN EB_goToPrev(self, rm)
         ELSE self
    ELSE self

EB_keydownListener(self, key, rm) ==
    LET s1 == IF key = "ArrowLeft" THEN EB_goToPrev(self, rm) ELSE self
    IN IF key = "ArrowRight" THEN EB_goToNext(s1, rm) ELSE s1

EB_listener(self, e, rm) ==
    CASE e.type = "click" /\ e.target = "prev" -> EB_goToPrev(self, rm)
      [] e.type = "click" /\ e.target = "next" -> EB_goToNext(self, rm)
      [] e.type = "wheel" -> EB_wheelListener(self, e.deltaX, e.deltaY, rm)
      [] e.type = "keydown" -> EB_keydownListener(self, e.key, rm)

\* An event runs every listener registered for it, and every call of
\* setupEventListeners registers one more of each (n in all).  The listeners
\* that keep their state in a closure (touch, drag, the debounced resize) are
\* those of the first call.
RECURSIVE EB_dispatch(_, _, _, _)
EB_dispatch(self, e, n, rm) ==
    IF n = 0 THEN self ELSE EB_listener(EB_dispatch(self, e, n - 1, rm), e, rm)

EB_onPrevClick(self, rm) ==
    EB_dispatch(self, [type |-> "click", target |-> "prev"], self.listeners, rm)

EB_onNextClick(self, rm) ==
    EB_dispatch(self, [type |-> "click", target |-> "next"], self.listeners, rm)

\* touchstart on the track: the swipe listener, then onPointerDown.
EB_onTouchStart(self, x) ==
    IF EB_listening(self)
    THEN EB_onPointerDown([self EXCEPT !.touchStartX = x], x)
    ELSE self

EB_onTouchMove(self, x) ==
    IF EB_listening(self) THEN EB_onPointerMove(self, x) ELSE self

\* touchend on the track: the swipe listener (handleSwipe), then onPointerUp.
EB_onTouchEnd(self, x, rm) ==
    IF EB_listening(self)
    THEN EB_onPointerUp(EB_handleSwipe(self, self.touchStartX, x, rm), rm)
    ELSE self

EB_onMouseDown(self, x) ==
    IF EB_listening(self) THEN EB_onPointerDown(self, x) ELSE self

EB_onMouseMove(self, x) ==
    IF EB_listening(self) THEN EB_onPointerMove(self, x) ELSE self

EB_onMouseUp(self, rm) ==
    IF EB_listening(self) THEN EB_onPointerUp(self, rm) ELSE self

EB_onWheel(self, deltaX, deltaY, rm) ==
    EB_dispatch(self, [type |-> "wheel", deltaX |-> deltaX, deltaY |-> deltaY],
                self.listeners, rm)

EB_onKeydown(self, key, rm) ==
    EB_dispatch(self, [type |-> "keydown", key |-> key], self.listeners, rm)

\* The debounced resize listener, registered by handleResize() during init().
EB_onResize(self) ==
    IF EB_listening(self)
    THEN [self EXCEPT !.resizeTimer = DB_call(@, ResizeWait)]
    ELSE self

EB_resizeLater(self, width, rm) ==
    IF ~DB_pending(self.resizeTimer) THEN self
    ELSE LET cpv == EB_getCardsPerView(width)
             mx == Max(0, NumCards - cpv)
         IN EB_updateSlider(
                [self EXCEPT !.resizeTimer = DB_later(@),
                             !.cardsPerView = cpv,
                             !.maxIndex = mx,
                             !.currentIndex = Min(self.currentIndex, mx)], rm)

\* init() of the page: the slider is created but not initialised (autoInit = false).
BenefitsAtLoad(width, rm) == EB_constructor(width, FALSE, rm)

----------------------------------------------------------------------------
(* initScrollAnimations: the IntersectionObserver *)

\* No observer is created when reduced motion is preferred.  A new observer
\* reports every observed target once, with its intersection state at that time.
IO_initScrollAnimations(rm, found, vis) ==
    IF rm
    THEN [exists |-> FALSE, observed |-> {}, queue |-> {}]
    ELSE [exists |-> TRUE,
          observed |-> found,
          queue |-> {[target |-> s, isIntersecting |-> s \in vis] : s \in found}]

\* The browser records a threshold crossing of an observed target.
IO_notify(obs, s, v) ==
    IF obs.exists /\ s \in obs.observed
    THEN [obs EXCEPT !.queue = @ \cup {[target |-> s, isIntersecting |-> v]}]
    ELSE obs

IO_pending(obs, s) == \E e \in obs.queue : e.target = s

\* Targets of the entries the callback treats (entry.isIntersecting).
IO_intersecting(obs) == {e.target : e \in {q \in obs.queue : q.isIntersecting}}

\* Variant: the callback leaves the target observed.
IO_callback_keepObserving(obs) ==
    [obs EXCEPT !.queue = {}]

\* The callback: animate-in is added, the target is unobserved.
IO_callback(obs) ==
    [obs EXCEPT !.observed = @ \ IO_intersecting(obs), !.queue = {}]

\* The callback's call of window.__benefitsSlider.init().
IO_activate(obs, slider, rm) ==
    IF "exhibition-benefits" \in IO_intersecting(obs)
    THEN EB_init(slider, rm)
    ELSE slider

----------------------------------------------------------------------------
(* FormValidator *)

\* The inputs of the form, in document order, and the elements that hold them.
Fields == {"name", "phone"}
FieldOrder == <<"name", "phone">>
Parents == {"group1", "group2"}

\* field.type of each input.
FieldType == [f \in Fields |-> IF f = "phone" THEN "tel" ELSE "text"]

\* Strings are sequences of characters.
Digits(n) == [i \in 1..n |-> "5"]
Values ==
    { <<>>, <<" ">>, Digits(9), Digits(10), Digits(11),
      <<" ">> \o Digits(10) \o <<" ">>, Digits(9) \o <<"a">> }

IsSpace(c) == c \in {" "}
IsDigit(c) == c \in {"0", "1", "2", "3", "4", "5", "6", "7", "8", "9"}

RECURSIVE TrimStart(_)
TrimStart(s) ==
    IF s # <<>> /\ IsSpace(Head(s)) THEN TrimStart(Tail(s)) ELSE s

RECURSIVE TrimEnd(_)
TrimEnd(s) ==
    IF s # <<>> /\ IsSpace(s[Len(s)]) THEN TrimEnd(SubSeq(s, 1, Len(s) - 1)) ELSE s

\* String.prototype.trim
Trim(s) == TrimEnd(TrimStart(s))

\* The pattern without its end anchor.
PhoneRegexTest_unanchored(value) ==
    /\ Len(value) >= 10
    /\ \A i \in 1..10 : IsDigit(value[i])

\* /^[0-9]{10}$/.test(value)
PhoneRegexTest(value) ==
    /\ Len(value) = 10
    /\ \A i \in 1..Len(value) : IsDigit(value[i])

RequiredMessage == "This field is required"
PhoneMessage == "Please enter a valid 10-digit phone number"

SuccessDelay == 5000    \* setTimeout(() => successDiv.remove(), 5000)
NoTimer == -1           \* no timer is pending

\* The form after its constructor: which inputs carry `required`, which
\* element holds each input; values are the defaults (empty), nothing is
\* marked, no message is shown, nothing has been logged.
\*   invalid      inputs with aria-invalid and the error class
\*   describedby  aria-describedby of each input ("" when absent)
\*   errors       the .enquiry-form__error elements of each parent, in order
\*   messages     the .enquiry-form__success elements of the form, in order:
\*                the time since appendChild and the time left on its timer
\*   logged       whether console.log has been called
FV_constructor(required, parent) ==
    [required |-> required,
     parent |-> parent,
     value |-> [f \in Fields |-> <<>>],
     invalid |-> {},
     describedby |-> [f \in Fields |-> ""],
     errors |-> [p \in Parents |-> <<>>],
     messages |-> <<>>,
     logged |-> FALSE]

\* The id showError gives the error element of a field.
FV_errorId(f) == f \o "-error"

FV_clearError(self, f) ==
    [self EXCEPT !.invalid = @ \ {f},
                 !.describedby[f] = "",
                 !.errors[self.parent[f]] = IF @ = <<>> THEN @ ELSE Tail(@)]

FV_showError(self, f, message) ==
    LET cleared == FV_clearError(self, f) IN
    [cleared EXCEPT !.invalid = @ \cup {f},
                    !.describedby[f] = FV_errorId(f),
                    !.errors[self.parent[f]] =
                        Append(@, [id |-> FV_errorId(f), message |-> message])]

\* The message validateField computes; "" stands for isValid = true.
FV_errorMessage(self, f) ==
    LET value == Trim(self.value[f]) IN
    IF self.required[f] /\ value = <<>> THEN RequiredMessage
    ELSE IF FieldType[f] = "tel" /\ value # <<>> /\ ~PhoneRegexTest(value)
         THEN PhoneMessage
         ELSE ""

FV_isValid(self, f) == FV_errorMessage(self, f) = ""

FV_validateField(self, f) ==
    IF FV_isValid(self, f)
    THEN FV_clearError(self, f)
    ELSE FV_showError(self, f, FV_errorMessage(self, f))

\* querySelectorAll('input[required]'), in document order from position k on.
RECURSIVE FV_validateFrom(_, _)
FV_validateFrom(self, k) ==
    IF k > Len(FieldOrder) THEN self
    ELSE FV_validateFrom(IF self.required[FieldOrder[k]]
                         THEN FV_validateField(self, FieldOrder[k])
                         ELSE self,
                         k + 1)

\* validateForm: its effect on the form and the value it returns.
FV_validateForm(self) == FV_validateFrom(self, 1)

FV_formIsValid(self) ==
    \A f \in Fields : self.required[f] => FV_isValid(self, f)

\* One timer for all messages: a new message cancels the pending timer.
FV_showSuccessMessage_sharedTimer(self) ==
    [self EXCEPT !.messages =
        Append([i \in 1..Len(@) |-> [@[i] EXCEPT !.timer = NoTimer]],
               [age |-> 0, timer |-> SuccessDelay])]

FV_showSuccessMessage(self) ==
    [self EXCEPT !.messages = Append(@, [age |-> 0, timer |-> SuccessDelay])]

\* form.reset(): every input returns to its default value.
FV_reset(self) == [self EXCEPT !.value = [f \in Fields |-> <<>>]]

FV_handleSubmit(self) ==
    FV_reset(FV_showSuccessMessage([self EXCEPT !.logged = TRUE]))

\* The submit listener.
FV_onSubmit(self) ==
    IF FV_formIsValid(self)
    THEN FV_handleSubmit(FV_validateForm(self))
    ELSE FV_validateForm(self)

\* The timer of message i fires: successDiv.remove().
FV_removeMessage(self, i) ==
    [self EXCEPT !.messages = SubSeq(@, 1, i - 1) \o SubSeq(@, i + 1, Len(@))]

\* Time passes on the form page.
FV_elapse(self, d) ==
    [self EXCEPT !.messages =
        [i \in 1..Len(@) |->
            [age |-> Min(@[i].age + d, SuccessDelay + d),
             timer |-> IF @[i].timer = NoTimer THEN NoTimer ELSE @[i].timer - d]]]

----------------------------------------------------------------------------
(* SchoolLogosSlider *)

LogosMaxScroll == 300   \* scrollWidth - clientWidth of the strip
KeyStep == 200          \* container.scrollLeft -= 200 / += 200

\* Wheel deltas (deltaX, deltaY) on the strip.
LogosWheelDeltas == {<<0, 100>>, <<0, -100>>, <<-120, 100>>}

\* The browser keeps scrollLeft within the scrollable range.
SL_scrollTo(self, x) ==
    [self EXCEPT !.containerScrollLeft = Max(0, Min(LogosMaxScroll, x))]

\* One strip after setupContainer:
\*   isDown, startX, scrollLeft   the closure variables
\*   containerScrollLeft          container.scrollLeft
\*   animationPlayState           of the track; the animation runs at load
\*   hovered, touched             the pointer is over the strip, a finger is on it
SL_setupContainer ==
    [isDown |-> FALSE,
     startX |-> 0,
     scrollLeft |-> 0,
     containerScrollLeft |-> 0,
     animationPlayState |-> "running",
     hovered |-> FALSE,
     touched |-> FALSE]

SL_pointerDown(self, x) ==
    [self EXCEPT !.isDown = TRUE,
                 !.startX = x,
                 !.scrollLeft = self.containerScrollLeft,
                 !.animationPlayState = "paused"]

SL_pointerMove(self, x) ==
    IF ~self.isDown THEN self
    ELSE SL_scrollTo(self, self.scrollLeft + (self.startX - x))

SL_pointerUp(self) ==
    [self EXCEPT !.isDown = FALSE, !.animationPlayState = "running"]

\* mouseenter, mouseleave, touchstart and touchend have two listeners each,
\* run in registration order.

SL_onMouseEnter(self) ==
    [self EXCEPT !.hovered = TRUE, !.animationPlayState = "paused"]

SL_onMouseLeave(self) ==
    [SL_pointerUp(self) EXCEPT !.hovered = FALSE, !.animationPlayState = "running"]

SL_onTouchStart(self, x) ==
    [SL_pointerDown(self, x) EXCEPT !.touched = TRUE, !.animationPlayState = "paused"]

SL_onTouchEnd(self) ==
    [SL_pointerUp(self) EXCEPT !.touched = FALSE, !.animationPlayState = "running"]

SL_onWheel(self, delta) ==
    SL_scrollTo(self, self.containerScrollLeft
                        + (IF Abs(delta[1]) > Abs(delta[2]) THEN delta[1] ELSE delta[2]))

SL_onKeydown(self, key) ==
    LET s1 == IF key = "ArrowLeft"
              THEN SL_scrollTo(self, self.containerScrollLeft - KeyStep)
              ELSE self
    IN IF key = "ArrowRight" THEN SL_scrollTo(s1, s1.containerScrollLeft + KeyStep) ELSE s1

----------------------------------------------------------------------------
(* Header at-top state (the closure in init()) *)

ANIM_TIMEOUT == 700     \* const ANIM_TIMEOUT = 700
ScrollWait == 50        \* debounce(updateHeaderAtTop, 50)

\* Scroll positions (window.scrollY).
ScrollYs == {0, 100}

\* Time since the latest application of the class, once it no longer matters.
LongAgo == ANIM_TIMEOUT + ScrollWait

\* The class is applied and the timer that removes it is replaced.
HD_animate_noClear(self) ==
    [self EXCEPT !.animated = TRUE,
                 !.animTimer = DB_call_noClear(@, ANIM_TIMEOUT),
                 !.sinceApplied = 0]

\* classList.add('is-animated'); clearTimeout(_headerAnimTimer); setTimeout(...).
\*   sinceApplied  the time (ms) since this was last done
HD_animate(self) ==
    [self EXCEPT !.animated = TRUE,
                 !.animTimer = DB_call(@, ANIM_TIMEOUT),
                 !.sinceApplied = 0]

HD_updateHeaderAtTop(self, rm) ==
    LET atTop == (self.scrollY = 0)
        toggled == [self EXCEPT !.atTopClass = atTop]
        run == IF ~rm /\ atTop /\ ~self.wasAtTop THEN HD_animate(toggled) ELSE toggled
    IN [run EXCEPT !.wasAtTop = atTop]

\* The closure after init() has run it, the page being loaded at scrollY = y:
\*   atTopClass  the class header--at-top
\*   animated    the class is-animated
\*   animTimer   headerEl._headerAnimTimer and the timers set for it
\*   scrollTimer the closure of debounce(updateHeaderAtTop, 50)
\*   raf         whether the requestAnimationFrame callback is still to run
HD_init(y, rm) ==
    LET first == HD_updateHeaderAtTop(
                     [scrollY |-> y,
                      wasAtTop |-> (y = 0),
                      atTopClass |-> FALSE,
                      animated |-> FALSE,
                      animTimer |-> DB_idle,
                      scrollTimer |-> DB_idle,
                      raf |-> FALSE,
                      sinceApplied |-> LongAgo], rm)
    IN [first EXCEPT !.raf = ~rm /\ first.wasAtTop]

\* The requestAnimationFrame callback.
HD_onFrame(self) == HD_animate([self EXCEPT !.raf = FALSE])

\* The page is scrolled to y: the debounced scroll listener.
HD_onScroll(self, y) ==
    [self EXCEPT !.scrollY = y, !.scrollTimer = DB_call(@, ScrollWait)]

\* The debounce timer fires: later() runs updateHeaderAtTop.
HD_scrollLater(self, rm) ==
    HD_updateHeaderAtTop([self EXCEPT !.scrollTimer = DB_later(@)], rm)

HD_onPageShow(self, rm) == HD_updateHeaderAtTop(self, rm)

\* The timer of the class fires.
HD_animTimeout(self) ==
    [self EXCEPT !.animated = FALSE, !.animTimer = DB_expire(@)]

HD_elapse(self, d) ==
    [self EXCEPT !.animTimer = DB_elapse(@, d),
                 !.scrollTimer = DB_elapse(@, d),
                 !.sinceApplied = Min(@ + d, LongAgo)]

----------------------------------------------------------------------------
(* init(): the widgets it sets up, in order, and the elements each one needs *)

Widgets == <<"hero", "choose", "benefits", "logos", "form", "header">>

\* The parts of a container that the code looks up.
Parts ==
    [hero |-> {"hero.track", "hero.slides", "hero.nav", "hero.pause", "hero.pause.span"},
     choose |-> {"choose.track", "choose.cards", "choose.nav", "choose.dots"},
     benefits |-> {"benefits.track", "benefits.cards"},
     logos |-> {"logos.track"},
     form |-> {},
     header |-> {}]

\* The elements without which a widget skips its initialization.
Required ==
    [hero |-> {"hero", "hero.track", "hero.slides"},
     choose |-> {"choose", "choose.track", "choose.cards"},
     benefits |-> {"benefits", "benefits.track", "benefits.cards"},
     logos |-> {"logos", "logos.track"},
     form |-> {"form"},
     header |-> {"header"}]

\* Every document: any containers, any parts of the containers present; the
\* label of the pause button only inside a pause button.
Documents ==
    { d \in SUBSET ({Widgets[i] : i \in 1..Len(Widgets)}
                      \cup UNION {Parts[Widgets[i]] : i \in 1..Len(Widgets)}) :
        /\ \A i \in 1..Len(Widgets) :
              Widgets[i] \notin d => Parts[Widgets[i]] \cap d = {}
        /\ "hero.pause.span" \in d => "hero.pause" \in d }

\* What setting up widget w does in document d:
\*   "absent"   the container is missing, nothing is constructed
\*   "skipped"  constructed, init() returns at its existence check
\*   "ready"    constructed and listeners attached
\*   "created"  constructed, init() deferred (autoInit = false)
\*   "throws"   listeners attached, then a TypeError leaves the constructor
Setup(w, d) ==
    IF w \notin d THEN "absent"
    ELSE IF ~(Required[w] \subseteq d) THEN "skipped"
    ELSE IF w = "benefits" THEN "created"
    ELSE IF w = "hero" /\ "hero.pause" \in d /\ "hero.pause.span" \notin d THEN "throws"
    ELSE "ready"

\* init() before its first widget and after its last.
\*   pc           the position in Widgets of the next widget, 0 once init() has ended
\*   exception    whether init() was left by an exception
\*   constructed  the widgets whose constructor (or closure) has completed
\*   listening    the widgets whose listeners are attached
StartupBegin ==
    [pc |-> 1, exception |-> FALSE, constructed |-> {}, listening |-> {}]

StartupDone ==
    [pc |-> 0, exception |-> FALSE, constructed |-> {}, listening |-> {}]

\* init() sets up the widget at pc.
ST_step(self, d) ==
    LET w == Widgets[self.pc]
        outcome == Setup(w, d)
        next == IF self.pc = Len(Widgets) THEN 0 ELSE self.pc + 1
    IN [pc |-> IF outcome = "throws" THEN 0 ELSE next,
        exception |-> (outcome = "throws"),
        constructed |-> IF outcome \in {"skipped", "ready", "created"}
                        THEN self.constructed \cup {w}
                        ELSE self.constructed,
        listening |-> IF outcome \in {"ready", "throws"}
                      THEN self.listening \cup {w}
                      ELSE self.listening]

----------------------------------------------------------------------------
(* The page after init() has run *)

NoTouch == [target |-> "none", x |-> 0]

\* A document out of `pages`, loaded at a width out of `widths` under a motion
\* preference out of `motions`.
PageWith(pair, pages, widths, motions) ==
    /\ paired = pair
    /\ dom \in pages
    /\ innerWidth \in widths
    /\ reducedMotion \in motions
    /\ visible \in SUBSET (Sections \cap dom)
    /\ touch = NoTouch
    /\ hero = HS_constructor(reducedMotion)
    /\ choose = CS_constructor(innerWidth, reducedMotion)
    /\ benefits = BenefitsAtLoad(innerWidth, reducedMotion)
    /\ observer = IO_initScrollAnimations(reducedMotion, Sections \cap dom, visible)
    /\ animateIn = [s \in Sections |-> 0]
    /\ twinChoose = CS_constructor(innerWidth, ~reducedMotion)
    /\ twinBenefits = BenefitsAtLoad(innerWidth, ~reducedMotion)
    /\ twinObserver = IO_initScrollAnimations(~reducedMotion, Sections \cap dom, visible)

\* The documents with a form: each input in an element of its own, or both
\* in one; any subset of them required.
FormLayouts ==
    { [f \in Fields |-> IF f = "name" THEN "group1" ELSE "group2"],
      [f \in Fields |-> "group1"] }

NoForm == FV_constructor([f \in Fields |-> FALSE], [f \in Fields |-> "group1"])

NoHeader == HD_init(0, TRUE)

\* The widgets the document lacks (all but `kinds`) keep a placeholder.
Absent(kinds) ==
    /\ IF "form" \in kinds THEN TRUE ELSE form = NoForm
    /\ IF "header" \in kinds THEN TRUE ELSE header = NoHeader
    /\ IF "logos" \in kinds THEN TRUE ELSE logos = SL_setupContainer
    /\ IF "startup" \in kinds THEN TRUE ELSE startup = StartupDone

\* Time is not measured in Spec: a pending timer fires at any later step.
PageLoaded(pair) ==
    /\ PageWith(pair, Pages, Widths, IF pair THEN {FALSE} ELSE BOOLEAN)
    /\ Absent({})
    /\ sinceResize = 0

Init == PageLoaded(FALSE)

PairInit == PageLoaded(TRUE)

\* The second run takes the step only when it is simulated.
TwinOf(old, new) == IF paired THEN new ELSE old

\* The widgets outside the sliders' pages.
widgetVars == <<form, header, logos, startup>>

envVars == <<dom, innerWidth, reducedMotion, visible, paired, widgetVars, sinceResize>>
chooseVars == <<choose, twinChoose>>
benefitsVars == <<benefits, twinBenefits>>
observerVars == <<observer, twinObserver, animateIn>>

----------------------------------------------------------------------------
(* Events of the hero slider *)

HeroNextClick ==
    /\ "hero" \in dom
    /\ hero' = HS_goToNextSlide(hero)
    /\ UNCHANGED <<envVars, touch, chooseVars, benefitsVars, observerVars>>

HeroPrevClick ==
    /\ "hero" \in dom
    /\ hero' = HS_goToPrevSlide(hero)
    /\ UNCHANGED <<envVars, touch, chooseVars, benefitsVars, observerVars>>

HeroKeydown ==
    \E key \in {"ArrowLeft", "ArrowRight"} :
        /\ "hero" \in dom
        /\ hero' = HS_onKeydown(hero, key)
        /\ UNCHANGED <<envVars, touch, chooseVars, benefitsVars, observerVars>>

HeroTouchStart ==
    \E x \in Xs :
        /\ "hero" \in dom
        /\ touch.target = "none"
        /\ touch' = [target |-> "hero", x |-> x]
        /\ hero' = HS_onTouchStart(hero, x)
        /\ UNCHANGED <<envVars, chooseVars, benefitsVars, observerVars>>

HeroTouchEnd ==
    /\ touch.target = "hero"
    /\ touch' = NoTouch
    /\ hero' = HS_onTouchEnd(hero, touch.x)
    /\ UNCHANGED <<envVars, chooseVars, benefitsVars, observerVars>>

----------------------------------------------------------------------------
(* Events of the school-choice slider *)

ChooseStep(new, twinNew) ==
    /\ choose' = new
    /\ twinChoose' = TwinOf(twinChoose, twinNew)

ChooseNextClick ==
    /\ "choose" \in dom
    /\ ChooseStep(CS_goToNext(choose, reducedMotion),
                  CS_goToNext(twinChoose, ~reducedMotion))
    /\ UNCHANGED <<envVars, touch, hero, benefitsVars, observerVars>>

ChoosePrevClick ==
    /\ "choose" \in dom
    /\ ChooseStep(CS_goToPrev(choose, reducedMotion),
                  CS_goToPrev(twinChoose, ~reducedMotion))
    /\ UNCHANGED <<envVars, touch, hero, benefitsVars, observerVars>>

ChooseDotClick ==
    \E i \in 0..(NumDots - 1) :
        /\ "choose" \in dom
        /\ ChooseStep(CS_goToIndex(choose, i, reducedMotion),
                      CS_goToIndex(twinChoose, i, ~reducedMotion))
        /\ UNCHANGED <<envVars, touch, hero, benefitsVars, observerVars>>

ChooseKeydown ==
    \E key \in {"ArrowLeft", "ArrowRight"} :
        /\ "choose" \in dom
        /\ ChooseStep(CS_onKeydown(choose, key, reducedMotion),
                      CS_onKeydown(twinChoose, key, ~reducedMotion))
        /\ UNCHANGED <<envVars, touch, hero, benefitsVars, observerVars>>

ChooseTouchStart ==
    \E x \in Xs :
        /\ "choose" \in dom
        /\ touch.target = "none"
        /\ touch' = [target |-> "choose", x |-> x]
        /\ ChooseStep(CS_onTouchStart(choose, x), CS_onTouchStart(twinChoose, x))
        /\ UNCHANGED <<envVars, hero, benefitsVars, observerVars>>

ChooseTouchEnd ==
    /\ touch.target = "choose"
    /\ touch' = NoTouch
    /\ ChooseStep(CS_onTouchEnd(choose, touch.x, reducedMotion),
                  CS_onTouchEnd(twinChoose, touch.x, ~reducedMotion))
    /\ UNCHANGED <<envVars, hero, benefitsVars, observerVars>>

\* The debounce timer of the resize listener fires.
ChooseResizeTimer ==
    /\ DB_pending(choose.resizeTimer)
    /\ ChooseStep(CS_resizeLater(choose, innerWidth, reducedMotion),
                  CS_resizeLater(twinChoose, innerWidth, ~reducedMotion))
    /\ UNCHANGED <<envVars, touch, hero, benefitsVars, observerVars>>

----------------------------------------------------------------------------
(* Events of the exhibition-benefits slider *)

BenefitsStep(new, twinNew) ==
    /\ benefits' = new
    /\ twinBenefits' = TwinOf(twinBenefits, twinNew)

\* |currentTranslate| stays within the model's bound.
InRange(slider) == Abs(slider.currentTranslate) <= MaxTranslate

BenefitsNextClick ==
    /\ "benefits" \in dom
    /\ BenefitsStep(EB_onNextClick(benefits, reducedMotion),
                    EB_onNextClick(twinBenefits, ~reducedMotion))
    /\ UNCHANGED <<envVars, touch, hero, chooseVars, observerVars>>

BenefitsPrevClick ==
    /\ "benefits" \in dom
    /\ BenefitsStep(EB_onPrevClick(benefits, reducedMotion),
                    EB_onPrevClick(twinBenefits, ~reducedMotion))
    /\ UNCHANGED <<envVars, touch, hero, chooseVars, observerVars>>

BenefitsKeydown ==
    \E key \in {"ArrowLeft", "ArrowRight"} :
        /\ "benefits" \in dom
        /\ BenefitsStep(EB_onKeydown(benefits, key, reducedMotion),
                        EB_onKeydown(twinBenefits, key, ~reducedMotion))
        /\ UNCHANGED <<envVars, touch, hero, chooseVars, observerVars>>

BenefitsWheel ==
    \E d \in WheelDeltas :
        /\ "benefits" \in dom
        /\ BenefitsStep(EB_onWheel(benefits, d[1], d[2], reducedMotion),
                        EB_onWheel(twinBenefits, d[1], d[2], ~reducedMotion))
        /\ UNCHANGED <<envVars, touch, hero, chooseVars, observerVars>>

BenefitsTouchStart ==
    \E x \in Xs :
        /\ "benefits" \in dom
        /\ touch.target = "none"
        /\ touch' = [target |-> "benefits", x |-> x]
        /\ BenefitsStep(EB_onTouchStart(benefits, x), EB_onTouchStart(twinBenefits, x))
        /\ UNCHANGED <<envVars, hero, chooseVars, observerVars>>

BenefitsTouchEnd ==
    /\ touch.target = "benefits"
    /\ touch' = NoTouch
    /\ BenefitsStep(EB_onTouchEnd(benefits, touch.x, reducedMotion),
                    EB_onTouchEnd(twinBenefits, touch.x, ~reducedMotion))
    /\ UNCHANGED <<envVars, hero, chooseVars, observerVars>>

\* The finger moves; only the benefits track listens to touchmove.
TouchMove ==
    \E x \in Xs :
        /\ touch.target # "none"
        /\ x # touch.x
        /\ touch' = [touch EXCEPT !.x = x]
        /\ IF touch.target = "benefits"
           THEN /\ BenefitsStep(EB_onTouchMove(benefits, x),
                                EB_onTouchMove(twinBenefits, x))
                /\ InRange(benefits') /\ InRange(twinBenefits')
           ELSE UNCHANGED <<benefits, twinBenefits>>
        /\ UNCHANGED <<envVars, hero, chooseVars, observerVars>>

BenefitsMouseDown ==
    \E x \in Xs :
        /\ "benefits" \in dom
        /\ BenefitsStep(EB_onMouseDown(benefits, x), EB_onMouseDown(twinBenefits, x))
        /\ UNCHANGED <<envVars, touch, hero, chooseVars, observerVars>>

\* mousemove and mouseup are listened to on window.
MouseMove ==
    \E x \in Xs :
        /\ BenefitsStep(EB_onMouseMove(benefits, x), EB_onMouseMove(twinBenefits, x))
        /\ InRange(benefits') /\ InRange(twinBenefits')
        /\ UNCHANGED <<envVars, touch, hero, chooseVars, observerVars>>

MouseUp ==
    /\ BenefitsStep(EB_onMouseUp(benefits, reducedMotion),
                    EB_onMouseUp(twinBenefits, ~reducedMotion))
    /\ UNCHANGED <<envVars, touch, hero, chooseVars, observerVars>>

BenefitsResizeTimer ==
    /\ DB_pending(benefits.resizeTimer) \/ (paired /\ DB_pending(twinBenefits.resizeTimer))
    /\ BenefitsStep(EB_resizeLater(benefits, innerWidth, reducedMotion),
                    EB_resizeLater(twinBenefits, innerWidth, ~reducedMotion))
    /\ UNCHANGED <<envVars, touch, hero, chooseVars, observerVars>>

----------------------------------------------------------------------------
(* Window and observer events *)

\* The window is resized: every registered (debounced) resize listener runs.
Resize ==
    \E w \in Widths :
        /\ w # innerWidth
        /\ innerWidth' = w
        /\ sinceResize' = 0
        /\ IF "choose" \in dom
           THEN ChooseStep(CS_onResize(choose), CS_onResize(twinChoose))
           ELSE UNCHANGED chooseVars
        /\ BenefitsStep(EB_onResize(benefits), EB_onResize(twinBenefits))
        /\ UNCHANGED <<dom, reducedMotion, visible, paired, touch, hero, observerVars,
                       widgetVars>>

\* A section crosses the visibility threshold.  The callback for the previous
\* crossing of the same section has been delivered by then.
ScrollSection ==
    \E s \in Sections \cap dom :
        LET v == s \notin visible IN
        /\ ~IO_pending(observer, s)
        /\ ~(paired /\ IO_pending(twinObserver, s))
        /\ visible' = IF v THEN visible \cup {s} ELSE visible \ {s}
        /\ observer' = IO_notify(observer, s, v)
        /\ twinObserver' = TwinOf(twinObserver, IO_notify(twinObserver, s, v))
        /\ UNCHANGED <<dom, innerWidth, reducedMotion, paired, touch, hero, chooseVars,
                       benefitsVars, animateIn, widgetVars, sinceResize>>

\* Another script calls window.__benefitsSlider.init().
BenefitsInitCall ==
    /\ "benefits" \in dom
    /\ BenefitsStep(EB_init(benefits, reducedMotion), EB_init(twinBenefits, ~reducedMotion))
    /\ UNCHANGED <<envVars, touch, hero, chooseVars, observerVars>>

\* The observer callback runs on the queued entries.
ObserverCallback ==
    /\ observer.queue # {} \/ (paired /\ twinObserver.queue # {})
    /\ observer' = IO_callback(observer)
    /\ twinObserver' = TwinOf(twinObserver, IO_callback(twinObserver))
    /\ animateIn' = [s \in Sections |->
                        IF s \in IO_intersecting(observer)
                        THEN Min(animateIn[s] + 1, MaxAdds)
                        ELSE animateIn[s]]
    /\ BenefitsStep(IO_activate(observer, benefits, reducedMotion),
                    IO_activate(twinObserver, twinBenefits, ~reducedMotion))
    /\ UNCHANGED <<envVars, touch, hero, chooseVars>>

----------------------------------------------------------------------------

Next ==
    \/ HeroNextClick \/ HeroPrevClick \/ HeroKeydown
    \/ HeroTouchStart \/ HeroTouchEnd
    \/ ChooseNextClick \/ ChoosePrevClick \/ ChooseDotClick \/ ChooseKeydown
    \/ ChooseTouchStart \/ ChooseTouchEnd \/ ChooseResizeTimer
    \/ BenefitsNextClick \/ BenefitsPrevClick \/ BenefitsKeydown \/ BenefitsWheel
    \/ BenefitsTouchStart \/ BenefitsTouchEnd \/ TouchMove
    \/ BenefitsMouseDown \/ MouseMove \/ MouseUp \/ BenefitsResizeTimer
    \/ Resize \/ ScrollSection \/ ObserverCallback

Spec == Init /\ [][Next]_vars

\* The browser delivers queued observer entries; a running timer fires.
FairSpec ==
    /\ Spec
    /\ WF_vars(ObserverCallback)
    /\ WF_vars(ChooseResizeTimer)
    /\ WF_vars(BenefitsResizeTimer)

\* The page of the benefits slider with a script that calls init() of the
\* published slider; the buttons, keys, wheel, resizes and the observer act.
InitCallInit ==
    /\ PageWith(FALSE, {{"stats", "exhibition-benefits", "benefits"}}, Widths, BOOLEAN)
    /\ Absent({})
    /\ sinceResize = 0

InitCallNext ==
    \/ BenefitsNextClick \/ BenefitsPrevClick \/ BenefitsKeydown \/ BenefitsWheel
    \/ BenefitsResizeTimer \/ Resize \/ ScrollSection \/ ObserverCallback
    \/ BenefitsInitCall

SpecInitCall == InitCallInit /\ [][InitCallNext]_vars

\* Two runs of the page, fed the same events: one without and one with the
\* reduced-motion preference.
SpecPair == PairInit /\ [][Next]_vars

----------------------------------------------------------------------------
(* The form page *)

MaxMessages == 2        \* confirmation messages shown at a time

\* The steps in which time passes on the form page (ms).
FormTicks == {2500}

sliderVars == <<dom, innerWidth, reducedMotion, visible, paired, touch, hero,
                chooseVars, benefitsVars, observerVars, sinceResize>>

notForm == <<sliderVars, header, logos, startup>>
notHeader == <<sliderVars, form, logos, startup>>
notLogos == <<sliderVars, form, header, startup>>
notStartup == <<sliderVars, form, header, logos>>

FormInit ==
    /\ PageWith(FALSE, {{"form"}}, {1400}, {FALSE})
    /\ Absent({"form"})
    /\ sinceResize = 0
    /\ form \in {FV_constructor(r, p) : r \in [Fields -> BOOLEAN], p \in FormLayouts}

\* An input loses focus.
FormBlur ==
    \E f \in Fields :
        /\ "form" \in dom
        /\ form' = FV_validateField(form, f)
        /\ UNCHANGED notForm

\* The user edits an input: the value changes and the input listener runs.
FormInput ==
    \E f \in Fields, v \in Values :
        /\ "form" \in dom
        /\ v # form.value[f]
        /\ form' = FV_clearError([form EXCEPT !.value[f] = v], f)
        /\ UNCHANGED notForm

\* The form is submitted.
FormSubmit ==
    /\ "form" \in dom
    /\ Len(FV_onSubmit(form).messages) <= MaxMessages
    /\ form' = FV_onSubmit(form)
    /\ UNCHANGED notForm

\* The timer of a confirmation message fires.
FormDismiss ==
    \E i \in 1..Len(form.messages) :
        /\ form.messages[i].timer = 0
        /\ form' = FV_removeMessage(form, i)
        /\ UNCHANGED notForm

\* Time passes; a timer that is due fires before time moves on.
FormTick ==
    \E d \in FormTicks :
        /\ form.messages # <<>>
        /\ \A i \in 1..Len(form.messages) :
              form.messages[i].timer = NoTimer \/ form.messages[i].timer >= d
        /\ form' = FV_elapse(form, d)
        /\ UNCHANGED notForm

FormNext == FormBlur \/ FormInput \/ FormSubmit \/ FormDismiss \/ FormTick

SpecForm == FormInit /\ [][FormNext]_vars

----------------------------------------------------------------------------
(* The header page *)

\* The steps in which time passes on the header page (ms).
HeaderTicks == {50}

HeaderInit ==
    /\ PageWith(FALSE, {{"header"}}, {1400}, BOOLEAN)
    /\ Absent({"header"})
    /\ sinceResize = 0
    /\ header \in {HD_init(y, reducedMotion) : y \in ScrollYs}

\* The page is scrolled.
HeaderScroll ==
    \E y \in ScrollYs :
        /\ "header" \in dom
        /\ y # header.scrollY
        /\ header' = HD_onScroll(header, y)
        /\ UNCHANGED notHeader

HeaderScrollTimer ==
    /\ DB_due(header.scrollTimer)
    /\ header' = HD_scrollLater(header, reducedMotion)
    /\ UNCHANGED notHeader

HeaderPageShow ==
    /\ "header" \in dom
    /\ header' = HD_onPageShow(header, reducedMotion)
    /\ UNCHANGED notHeader

HeaderFrame ==
    /\ header.raf
    /\ header' = HD_onFrame(header)
    /\ UNCHANGED notHeader

HeaderAnimTimer ==
    /\ DB_due(header.animTimer)
    /\ header' = HD_animTimeout(header)
    /\ UNCHANGED notHeader

\* Time passes; the next frame and a timer that is due come first.
HeaderTick ==
    \E d \in HeaderTicks :
        /\ "header" \in dom
        /\ ~header.raf
        /\ DB_canElapse(header.animTimer, d)
        /\ DB_canElapse(header.scrollTimer, d)
        /\ header' = HD_elapse(header, d)
        /\ UNCHANGED notHeader

HeaderNext ==
    \/ HeaderScroll \/ HeaderScrollTimer \/ HeaderPageShow
    \/ HeaderFrame \/ HeaderAnimTimer \/ HeaderTick

SpecHeader == HeaderInit /\ [][HeaderNext]_vars

----------------------------------------------------------------------------
(* The pages with time measured: autoplay, resize debounce, form, header *)

\* The steps in which time passes on the hero page and on the card sliders' pages (ms).
HeroTicks == {2500}
ResizeTicks == {125}

\* Time since the latest resize event, once it no longer matters.
LongSince == 2 * ResizeWait

notHero == <<envVars, touch, chooseVars, benefitsVars, observerVars>>

HeroMouseEnter ==
    /\ "hero" \in dom
    /\ ~hero.hovered
    /\ hero' = HS_onMouseEnter(hero)
    /\ UNCHANGED notHero

HeroMouseLeave ==
    /\ "hero" \in dom
    /\ hero.hovered
    /\ hero' = HS_onMouseLeave(hero, reducedMotion)
    /\ UNCHANGED notHero

\* A click on the pause button, or the space key on the container.
HeroPauseToggle ==
    /\ "hero" \in dom
    /\ hero' = HS_toggleAutoplay(hero, reducedMotion)
    /\ UNCHANGED notHero

\* A running interval is due.
HeroInterval ==
    \E i \in 1..Len(hero.autoplay.timers) :
        /\ "hero" \in dom
        /\ hero.autoplay.timers[i] = 0
        /\ hero' = HS_onInterval(hero, i)
        /\ UNCHANGED notHero

HeroTick ==
    \E d \in HeroTicks :
        /\ "hero" \in dom
        /\ DB_pending(hero.autoplay)
        /\ DB_canElapse(hero.autoplay, d)
        /\ hero' = HS_elapse(hero, d)
        /\ UNCHANGED notHero

\* The resize debounce timer of a slider is due.
ChooseResizeDue == DB_due(choose.resizeTimer) /\ ChooseResizeTimer

BenefitsResizeDue == DB_due(benefits.resizeTimer) /\ BenefitsResizeTimer

\* Time passes on the page of a card slider.
ResizeTick ==
    \E d \in ResizeTicks :
        /\ dom \cap {"choose", "benefits"} # {}
        /\ DB_canElapse(choose.resizeTimer, d)
        /\ DB_canElapse(benefits.resizeTimer, d)
        /\ ChooseStep([choose EXCEPT !.resizeTimer = DB_elapse(@, d)],
                      [twinChoose EXCEPT !.resizeTimer = DB_elapse(@, d)])
        /\ BenefitsStep([benefits EXCEPT !.resizeTimer = DB_elapse(@, d)],
                        [twinBenefits EXCEPT !.resizeTimer = DB_elapse(@, d)])
        /\ sinceResize' = Min(sinceResize + d, LongSince)
        /\ UNCHANGED <<dom, innerWidth, reducedMotion, visible, paired, widgetVars,
                       touch, hero, observerVars>>

TimedInit ==
    \/ /\ PageWith(FALSE, Pages, Widths, BOOLEAN)
       /\ Absent({})
       /\ sinceResize = LongSince
    \/ FormInit
    \/ HeaderInit

TimedNext ==
    \/ HeroNextClick \/ HeroPrevClick
    \/ HeroMouseEnter \/ HeroMouseLeave \/ HeroPauseToggle \/ HeroInterval \/ HeroTick
    \/ ChooseNextClick \/ ChoosePrevClick \/ ChooseDotClick \/ ChooseResizeDue
    \/ BenefitsNextClick \/ BenefitsPrevClick \/ BenefitsResizeDue
    \/ ScrollSection \/ ObserverCallback
    \/ Resize \/ ResizeTick
    \/ FormNext
    \/ HeaderNext

\* Navigation by click, hover, resize, scrolling, the form and the header,
\* with every timer firing when it is due.
SpecTimed == TimedInit /\ [][TimedNext]_vars

----------------------------------------------------------------------------
(* The page of the logo strip *)

LogosInit ==
    /\ PageWith(FALSE, {{"logos"}}, {1400}, {FALSE})
    /\ Absent({"logos"})
    /\ sinceResize = 0
    /\ logos = SL_setupContainer

LogosMouseEnter ==
    /\ "logos" \in dom
    /\ ~logos.hovered
    /\ logos' = SL_onMouseEnter(logos)
    /\ UNCHANGED notLogos

LogosMouseLeave ==
    /\ logos.hovered
    /\ logos' = SL_onMouseLeave(logos)
    /\ UNCHANGED notLogos

\* Mouse events reach the strip while the pointer is over it.
LogosMouseDown ==
    \E x \in Xs :
        /\ logos.hovered
        /\ logos' = SL_pointerDown(logos, x)
        /\ UNCHANGED notLogos

LogosMouseMove ==
    \E x \in Xs :
        /\ logos.hovered
        /\ logos' = SL_pointerMove(logos, x)
        /\ UNCHANGED notLogos

LogosMouseUp ==
    /\ logos.hovered
    /\ logos' = SL_pointerUp(logos)
    /\ UNCHANGED notLogos

LogosTouchStart ==
    \E x \in Xs :
        /\ "logos" \in dom
        /\ ~logos.touched
        /\ logos' = SL_onTouchStart(logos, x)
        /\ UNCHANGED notLogos

LogosTouchMove ==
    \E x \in Xs :
        /\ logos.touched
        /\ logos' = SL_pointerMove(logos, x)
        /\ UNCHANGED notLogos

LogosTouchEnd ==
    /\ logos.touched
    /\ logos' = SL_onTouchEnd(logos)
    /\ UNCHANGED notLogos

LogosWheel ==
    \E delta \in LogosWheelDeltas :
        /\ "logos" \in dom
        /\ logos' = SL_onWheel(logos, delta)
        /\ UNCHANGED notLogos

LogosKeydown ==
    \E key \in {"ArrowLeft", "ArrowRight"} :
        /\ "logos" \in dom
        /\ logos' = SL_onKeydown(logos, key)
        /\ UNCHANGED notLogos

LogosNext ==
    \/ LogosMouseEnter \/ LogosMouseLeave
    \/ LogosMouseDown \/ LogosMouseMove \/ LogosMouseUp
    \/ LogosTouchStart \/ LogosTouchMove \/ LogosTouchEnd
    \/ LogosWheel \/ LogosKeydown

SpecLogos == LogosInit /\ [][LogosNext]_vars

----------------------------------------------------------------------------
(* init() on an arbitrary document *)

StartupInit ==
    /\ PageWith(FALSE, Documents, {1400}, {FALSE})
    /\ Absent({"startup"})
    /\ sinceResize = 0
    /\ startup = StartupBegin

\* init() is at widget w.
AtWidget(w) == startup.pc # 0 /\ Widgets[startup.pc] = w

InitHero ==
    /\ AtWidget("hero")
    /\ startup' = ST_step(startup, dom)
    /\ UNCHANGED notStartup

InitChoose ==
    /\ AtWidget("choose")
    /\ startup' = ST_step(startup, dom)
    /\ UNCHANGED notStartup

InitBenefits ==
    /\ AtWidget("benefits")
    /\ startup' = ST_step(startup, dom)
    /\ UNCHANGED notStartup

InitLogos ==
    /\ AtWidget("logos")
    /\ startup' = ST_step(startup, dom)
    /\ UNCHANGED notStartup

InitForm ==
    /\ AtWidget("form")
    /\ startup' = ST_step(startup, dom)
    /\ UNCHANGED notStartup

InitHeader ==
    /\ AtWidget("header")
    /\ startup' = ST_step(startup, dom)
    /\ UNCHANGED notStartup

StartupNext ==
    \/ InitHero \/ InitChoose \/ InitBenefits \/ InitLogos \/ InitForm \/ InitHeader

SpecStartup == StartupInit /\ [][StartupNext]_vars

----------------------------------------------------------------------------
(* The card sliders constructed at every viewport width *)

MaxWidth == 1400        \* the widest viewport

ViewportWidths == 320..MaxWidth

WidthInit ==
    /\ PageWith(FALSE, {{"choose", "benefits"}}, Widths, {FALSE})
    /\ Absent({})
    /\ sinceResize = 0

\* The page is loaded again in a viewport one pixel narrower or wider: both
\* constructors run.
LoadAt ==
    \E w \in {innerWidth - 1, innerWidth + 1} \cap ViewportWidths :
        /\ innerWidth' = w
        /\ ChooseStep(CS_constructor(w, reducedMotion), CS_constructor(w, ~reducedMotion))
        /\ BenefitsStep(BenefitsAtLoad(w, reducedMotion), BenefitsAtLoad(w, ~reducedMotion))
        /\ UNCHANGED <<dom, reducedMotion, visible, paired, widgetVars, sinceResize,
                       touch, hero, observerVars>>

WidthNext == LoadAt

SpecWidth == WidthInit /\ [][WidthNext]_vars

----------------------------------------------------------------------------
(* Properties *)

SlideWidth == CardWidth + Gap

\* C1: in the school-choice and the benefits slider the index always lies in
\* [0, maxIndex], whatever sequence of next, prev, dot click, swipe, wheel,
\* drag release and debounced resize has run.
C1_IndexInRange ==
    /\ 0 <= choose.currentIndex /\ choose.currentIndex <= choose.maxIndex
    /\ 0 <= benefits.currentIndex /\ benefits.currentIndex <= benefits.maxIndex

\* A drag was released beyond the last slide and the index was clamped to it.
C1_Witness ==
    /\ benefits.activated /\ ~benefits.isDragging
    /\ benefits.maxIndex = 0
    /\ benefits.currentTranslate = -MaxTranslate
    /\ benefits.currentIndex = 0

\* C2 as stated: in each of the three sliders, next at the last index and prev
\* at index 0 leave the index unchanged.
C2_NextPrevNoOpAtEnds ==
    [][/\ (HeroNextClick /\ hero.currentSlide = NumSlides - 1)
            => hero'.currentSlide = hero.currentSlide
       /\ (HeroPrevClick /\ hero.currentSlide = 0)
            => hero'.currentSlide = hero.currentSlide
       /\ (ChooseNextClick /\ choose.currentIndex = choose.maxIndex)
            => choose'.currentIndex = choose.currentIndex
       /\ (ChoosePrevClick /\ choose.currentIndex = 0)
            => choose'.currentIndex = choose.currentIndex
       /\ (BenefitsNextClick /\ benefits.currentIndex = benefits.maxIndex)
            => benefits'.currentIndex = benefits.currentIndex
       /\ (BenefitsPrevClick /\ benefits.currentIndex = 0)
            => benefits'.currentIndex = benefits.currentIndex]_vars

\* C2, amended: in the school-choice and the benefits slider, next at maxIndex
\* and prev at index 0 leave the slider unchanged; in the hero slider next at
\* the last slide wraps to slide 0 and prev at slide 0 wraps to the last slide.
C2_ClampOrWrapAtEnds ==
    [][/\ (HeroNextClick /\ hero.currentSlide = NumSlides - 1)
            => hero'.currentSlide = 0
       /\ (HeroPrevClick /\ hero.currentSlide = 0)
            => hero'.currentSlide = NumSlides - 1
       /\ (ChooseNextClick /\ choose.currentIndex = choose.maxIndex)
            => choose' = choose
       /\ (ChoosePrevClick /\ choose.currentIndex = 0)
            => choose' = choose
       /\ (BenefitsNextClick /\ benefits.currentIndex = benefits.maxIndex)
            => benefits' = benefits
       /\ (BenefitsPrevClick /\ benefits.currentIndex = 0)
            => benefits' = benefits]_vars

\* The hero slider stands on its last slide, from which next wraps.
C2_Witness ==
    /\ "hero" \in dom
    /\ NumSlides > 1
    /\ hero.currentSlide = NumSlides - 1

\* C3: a touch gesture on the track with |dx| <= 50 leaves the index of the
\* slider unchanged once all touchend listeners have run.
C3_SmallSwipeKeepsIndex ==
    [][/\ (HeroTouchEnd /\ Abs(hero.touchStartX - touch.x) <= SwipeThreshold)
            => hero'.currentSlide = hero.currentSlide
       /\ (ChooseTouchEnd /\ Abs(choose.touchStartX - touch.x) <= SwipeThreshold)
            => choose'.currentIndex = choose.currentIndex
       /\ (BenefitsTouchEnd /\ EB_listening(benefits)
              /\ Abs(benefits.touchStartX - touch.x) <= SwipeThreshold)
            => benefits'.currentIndex = benefits.currentIndex]_vars

\* C4, for the swipes that have a neighbouring slide in their direction: a
\* touch gesture on the track with |dx| > 50 moves the index by exactly one,
\* +1 when the finger moved left and -1 when it moved right.
C4_LargeSwipeMovesByOne ==
    [][/\ (HeroTouchEnd /\ hero.touchStartX - touch.x > SwipeThreshold
              /\ hero.currentSlide < NumSlides - 1)
            => hero'.currentSlide = hero.currentSlide + 1
       /\ (HeroTouchEnd /\ touch.x - hero.touchStartX > SwipeThreshold
              /\ hero.currentSlide > 0)
            => hero'.currentSlide = hero.currentSlide - 1
       /\ (ChooseTouchEnd /\ choose.touchStartX - touch.x > SwipeThreshold
              /\ choose.currentIndex < choose.maxIndex)
            => choose'.currentIndex = choose.currentIndex + 1
       /\ (ChooseTouchEnd /\ touch.x - choose.touchStartX > SwipeThreshold
              /\ choose.currentIndex > 0)
            => choose'.currentIndex = choose.currentIndex - 1
       /\ (BenefitsTouchEnd /\ EB_listening(benefits)
              /\ benefits.touchStartX - touch.x > SwipeThreshold
              /\ benefits.currentIndex < benefits.maxIndex)
            => benefits'.currentIndex = benefits.currentIndex + 1
       /\ (BenefitsTouchEnd /\ EB_listening(benefits)
              /\ touch.x - benefits.touchStartX > SwipeThreshold
              /\ benefits.currentIndex > 0)
            => benefits'.currentIndex = benefits.currentIndex - 1]_vars

\* C5: while no resize debounce timer is pending, the stored maxIndex of the
\* school-choice slider and of the activated benefits slider equals
\* max(0, itemCount - itemsPerView(current viewport width)).
C5_MaxIndexTracksViewport ==
    /\ ("choose" \in dom /\ ~DB_pending(choose.resizeTimer))
         => choose.maxIndex = Max(0, NumCards - CS_getCardsPerView(innerWidth))
    /\ ("benefits" \in dom /\ benefits.activated /\ ~DB_pending(benefits.resizeTimer))
         => benefits.maxIndex = Max(0, NumCards - EB_getCardsPerView(innerWidth))

\* C6: in the benefits slider a drag starts from the offset that is displayed
\* (so the offset applied while dragging is that offset plus the pointer
\* displacement), a pointer move does not change the index, and the release
\* sets the index to the slide nearest to the displayed offset, clamped to
\* [0, maxIndex].
C6_DragTracksDisplayedOffset ==
    [][/\ (~benefits.isDragging /\ benefits'.isDragging)
            => benefits'.prevTranslate = benefits.transform
       /\ ((MouseMove \/ TouchMove) /\ benefits.isDragging)
            => benefits'.currentIndex = benefits.currentIndex
       /\ (MouseUp /\ benefits.isDragging)
            => benefits'.currentIndex =
                 Max(0, Min(benefits.maxIndex, Round(-benefits.transform, SlideWidth)))]_vars

\* C7: until the benefits slider is activated it is exactly as constructed:
\* no listener, no render, index 0, no drag and no timer, whatever click, key,
\* touch, drag, wheel or resize events have happened.
C7_InertBeforeActivation ==
    ~benefits.activated
        => \E w \in Widths : benefits = EB_constructor(w, FALSE, reducedMotion)

\* Not yet activated, with a finger on the track and the viewport resized
\* since the slider was constructed.
C7_Witness ==
    /\ ~benefits.activated
    /\ touch.target = "benefits"
    /\ benefits.cardsPerView # EB_getCardsPerView(innerWidth)

\* C8: whenever the benefits section is visible and its container exists, the
\* benefits slider is eventually activated, for every motion preference.
C8_VisibleLeadsToActivation ==
    ("benefits" \in dom /\ "exhibition-benefits" \in visible) ~> benefits.activated

\* C9: the run with and the run without the reduced-motion preference have
\* the same index and the same offset in both card sliders after every event.
C9_SameIndexAndOffset ==
    /\ choose.currentIndex = twinChoose.currentIndex
    /\ choose.transform = twinChoose.transform
    /\ benefits.currentIndex = twinBenefits.currentIndex
    /\ benefits.transform = twinBenefits.transform

\* A section's visibility has been reported to the page's observer callback.
Reported(s) == s \in visible /\ ~IO_pending(observer, s)

\* C10 as stated: every tracked section that is scrolled into view gets the
\* reveal class applied exactly once, and is unobserved from then on.
C10_RevealedExactlyOnce ==
    \A s \in Sections \cap dom :
        /\ animateIn[s] <= 1
        /\ animateIn[s] = 1 => s \notin observer.observed
        /\ Reported(s) => animateIn[s] = 1

\* C10, amended: when reduced motion is not preferred, every tracked section
\* that is scrolled into view gets the reveal class applied exactly once and
\* is unobserved in the same step; when it is preferred, no section is
\* observed and the class is never applied.
C10_RevealedOnceUnlessReducedMotion ==
    \A s \in Sections \cap dom :
        /\ animateIn[s] <= 1
        /\ animateIn[s] = 1 <=> (observer.exists /\ s \notin observer.observed)
        /\ ~reducedMotion => (Reported(s) => animateIn[s] = 1)
        /\ reducedMotion => (animateIn[s] = 0 /\ ~observer.exists)

\* Both sections were revealed, and one has left the viewport again.
C10_Witness ==
    /\ animateIn["stats"] = 1
    /\ animateIn["exhibition-benefits"] = 1
    /\ "stats" \notin visible
    /\ "exhibition-benefits" \in visible

\* The error element of input f among those of its parent.
ErrorShownFor(self, f) ==
    \E i \in 1..Len(self.errors[self.parent[f]]) :
        self.errors[self.parent[f]][i].id = FV_errorId(f)

\* Input f is in the error state / carries no error.
InErrorState(self, f) ==
    /\ f \in self.invalid
    /\ self.describedby[f] = FV_errorId(f)
    /\ ErrorShownFor(self, f)

ErrorCleared(self, f) ==
    /\ f \notin self.invalid
    /\ self.describedby[f] = ""
    /\ ~ErrorShownFor(self, f)

TenDigits(s) ==
    /\ Len(s) = 10
    /\ \A i \in 1..Len(s) : s[i] \in {"0", "1", "2", "3", "4", "5", "6", "7", "8", "9"}

\* What the blur check must reject: a required input whose trimmed value is
\* empty, a telephone input whose trimmed value is neither empty nor ten digits.
FailsCheck(self, f) ==
    \/ self.required[f] /\ Trim(self.value[f]) = <<>>
    \/ /\ FieldType[f] = "tel"
       /\ Trim(self.value[f]) # <<>>
       /\ ~TenDigits(Trim(self.value[f]))

\* C11: when an input loses focus it ends in the error state exactly when it
\* is required and its trimmed value is empty, or it is a telephone input whose
\* trimmed value is non-empty and not exactly ten decimal digits; otherwise any
\* error on it is cleared.
C11_BlurChecksField ==
    [][\A f \in Fields :
          (FormBlur /\ form' = FV_validateField(form, f)) =>
              IF FailsCheck(form, f)
              THEN InErrorState(form', f)
              ELSE ErrorCleared(form', f)]_vars

\* Nine and eleven digits have been rejected on blur, and so has a required
\* input holding only a blank.
C11_Witness ==
    /\ form.value["phone"] \in {Digits(9), Digits(11)}
    /\ InErrorState(form, "phone")
    /\ form.parent["name"] # form.parent["phone"]
    /\ form.value["name"] = <<" ">>
    /\ InErrorState(form, "name")

FailingRequired(self) == {f \in Fields : self.required[f] /\ FailsCheck(self, f)}

\* C12: a submission validates every required input; if one fails, every
\* failing input shows its error, no confirmation message is appended, nothing
\* is logged and the form is not reset; handleSubmit runs only when all pass.
C12_SubmitBlockedWithErrors ==
    [][FormSubmit =>
          IF FailingRequired(form) # {}
          THEN /\ \A f \in FailingRequired(form) : InErrorState(form', f)
               /\ form'.messages = form.messages
               /\ form'.logged = form.logged
               /\ form'.value = form.value
          ELSE /\ Len(form'.messages) = Len(form.messages) + 1
               /\ form'.logged]_vars

\* C13: every confirmation message is removed five seconds after it was
\* appended, also when further submissions succeed within those five seconds
\* (each message shown has its own timer, due when the message is five seconds
\* old, and only a message of that age is removed), and the step that appends
\* a message resets the form.
C13_MessageRemovedAfterDelay ==
    /\ [](\A i \in 1..Len(form.messages) :
            /\ form.messages[i].timer # NoTimer
            /\ form.messages[i].age + form.messages[i].timer = SuccessDelay)
    /\ [][/\ Len(form'.messages) < Len(form.messages) =>
                \E i \in 1..Len(form.messages) :
                    /\ form.messages[i].age = SuccessDelay
                    /\ form' = FV_removeMessage(form, i)
          /\ Len(form'.messages) > Len(form.messages) =>
                \A f \in Fields : form'.value[f] = <<>>]_vars

\* A second submission succeeded while the first message was shown; the
\* first message is due, the second is not, and the form has been reset.
C13_Witness ==
    /\ Len(form.messages) = 2
    /\ form.messages[1].age = SuccessDelay
    /\ form.messages[2].age < SuccessDelay
    /\ \A f \in Fields : form.value[f] = <<>>

\* C15: the header's animation class is applied exactly when the header's
\* at-top state goes from off to on, and once by the first frame after a load
\* at the top; never under reduced motion; and whatever scroll and pageshow
\* events happen, the class is on for exactly the 700 ms that follow its most
\* recent application.
C15_HeaderAnimation ==
    /\ [](/\ header.animated <=> header.sinceApplied < ANIM_TIMEOUT
                                  \/ (header.sinceApplied = ANIM_TIMEOUT
                                      /\ DB_due(header.animTimer))
          /\ reducedMotion => ~header.animated /\ ~header.raf)
    /\ [][/\ (~header.atTopClass /\ header'.atTopClass /\ ~reducedMotion)
                => header'.animated /\ header'.sinceApplied = 0
          /\ header'.sinceApplied < header.sinceApplied
                => /\ ~reducedMotion
                   /\ header'.animated
                   /\ \/ ~header.wasAtTop /\ header'.atTopClass
                      \/ header.raf /\ ~header'.raf]_vars

\* The class has been on for 600 ms and the timer that removes it has 100 ms
\* left.
C15_Witness ==
    /\ ~reducedMotion
    /\ header.animated
    /\ header.atTopClass
    /\ header.sinceApplied = ANIM_TIMEOUT - 2 * ScrollWait
    /\ header.animTimer.timers = <<2 * ScrollWait>>

\* The timers pending for the confirmation messages.
DismissTimers == {i \in 1..Len(form.messages) : form.messages[i].timer # NoTimer}

OneTimerPerDebounce ==
    /\ Len(choose.resizeTimer.timers) <= 1
    /\ Len(benefits.resizeTimer.timers) <= 1
    /\ Len(header.scrollTimer.timers) <= 1

OneAutoplayInterval == Len(hero.autoplay.timers) <= 1

\* C14 as stated: at every moment at most one timer is pending per debounced
\* function, at most one hero autoplay interval is running and at most one
\* auto-dismiss timer of a confirmation message is pending.
C14_OneTimerEach ==
    /\ OneTimerPerDebounce
    /\ OneAutoplayInterval
    /\ Cardinality(DismissTimers) <= 1

\* C14, amended: at every moment at most one timer is pending per debounced
\* function and at most one hero autoplay interval is running; the auto-dismiss
\* timers are not replaced: one is pending for every confirmation message shown.
C14_OneTimerPerDebounceAndAutoplay ==
    /\ OneTimerPerDebounce
    /\ OneAutoplayInterval
    /\ Cardinality(DismissTimers) = Len(form.messages)

\* Two confirmation messages are shown, each with its timer pending.
C14_Witness ==
    /\ Len(form.messages) = 2
    /\ Cardinality(DismissTimers) = 2

\* C16: in the logo strip the animation is paused whenever the pointer is over
\* the strip, a drag is in progress or a finger is on the strip, and it runs
\* when none of these holds.
C16_PausedWhileEngaged ==
    IF logos.hovered \/ logos.isDown \/ logos.touched
    THEN logos.animationPlayState = "paused"
    ELSE logos.animationPlayState = "running"

\* C17: for every combination of present and absent elements init() ends
\* without an exception; a widget that lacks its container, track or items
\* attaches no listeners; and once init() has ended every widget whose
\* elements are present is constructed and (but for the deferred benefits
\* slider) has its listeners attached.
C17_StartupCompletes ==
    /\ ~startup.exception
    /\ \A i \in 1..Len(Widgets) :
          Widgets[i] \in startup.listening => Required[Widgets[i]] \subseteq dom
    /\ startup.pc = 0 /\ startup # StartupDone =>
          \A i \in 1..Len(Widgets) :
              Required[Widgets[i]] \subseteq dom =>
                  /\ Widgets[i] \in startup.constructed
                  /\ Widgets[i] # "benefits" => Widgets[i] \in startup.listening

\* C18: items per view is 1 below 768 px (also below 480 px), 2 from 768 px
\* up to but not including 1024 px, and 4 from 1024 px on; the school-choice
\* and the benefits slider compute the same value for every width.
C18_ItemsPerView ==
    /\ choose.cardsPerView = (IF innerWidth < 768 THEN 1
                              ELSE IF innerWidth < 1024 THEN 2
                              ELSE 4)
    /\ benefits.cardsPerView = choose.cardsPerView

\* Both sliders constructed at 768 px, the first width of the middle bucket,
\* show two items.
C18_Witness ==
    /\ innerWidth = 768
    /\ choose.cardsPerView = 2
    /\ benefits.cardsPerView = 2

\* The resize handler of a slider has run on this step: what it must have
\* computed from the width the window has now.
Recomputed(old, new, cpv) ==
    /\ new.cardsPerView = cpv
    /\ new.maxIndex = Max(0, NumCards - cpv)
    /\ new.currentIndex = Min(old.currentIndex, new.maxIndex)
    /\ ~DB_pending(new.resizeTimer)

\* While a resize timer of the slider is pending it is the only one, set by
\* the latest resize event.
OneRunPending(slider) ==
    DB_pending(slider.resizeTimer) =>
        /\ sinceResize <= ResizeWait
        /\ slider.resizeTimer.timers = <<ResizeWait - sinceResize>>

\* C19: in a burst of resize events less than 250 ms apart, the resize handler
\* of every initialized card slider runs once, 250 ms after the last event: it
\* recomputes cardsPerView and maxIndex from the final width and sets the
\* index to min(index, maxIndex), and nothing is recomputed before that.
C19_ResizeRunsOnceAfterBurst ==
    /\ [](OneRunPending(choose) /\ OneRunPending(benefits))
    /\ [][/\ ChooseResizeDue =>
                /\ sinceResize = ResizeWait
                /\ Recomputed(choose, choose', CS_getCardsPerView(innerWidth))
          /\ BenefitsResizeDue =>
                /\ sinceResize = ResizeWait
                /\ Recomputed(benefits, benefits', EB_getCardsPerView(innerWidth))
          /\ (choose'.cardsPerView # choose.cardsPerView
                \/ choose'.maxIndex # choose.maxIndex
                \/ benefits'.cardsPerView # benefits.cardsPerView
                \/ benefits'.maxIndex # benefits.maxIndex)
                => sinceResize = ResizeWait]_vars

\* 250 ms after the latest resize event, which left the window 900 px wide,
\* the handler of the school-choice slider has run: two cards per view, no
\* timer pending, the index at the new maxIndex.
C19_Witness ==
    /\ "choose" \in dom
    /\ innerWidth = 900
    /\ sinceResize = ResizeWait
    /\ ~DB_pending(choose.resizeTimer)
    /\ choose.cardsPerView = 2
    /\ choose.currentIndex = choose.maxIndex

\* C20: in the school-choice slider a click on dot i sets the index to
\* min(i, maxIndex), and afterwards exactly one dot is marked selected: the dot
\* at the position of the resulting index.
C20_DotClickSelectsOneDot ==
    [][\A i \in 0..(NumDots - 1) :
          (ChooseDotClick /\ choose' = CS_goToIndex(choose, i, reducedMotion)) =>
              /\ choose'.currentIndex = Min(i, choose.maxIndex)
              /\ choose'.activeDots = {choose'.currentIndex}
              /\ Cardinality(choose'.activeDots) = 1]_vars

\* The index is at a maxIndex below the last dot, where a click on the last
\* dot leaves it, and that dot alone is selected.
C20_Witness ==
    /\ "choose" \in dom
    /\ choose.currentIndex = choose.maxIndex
    /\ 0 < choose.maxIndex /\ choose.maxIndex < NumDots - 1
    /\ choose.activeDots = {choose.maxIndex}

\* C21: in the school-choice slider and in the activated benefits slider, after
\* every handled event the prev control is disabled exactly when the index is
\* 0 and the next control is disabled exactly when the index is maxIndex,
\* drag releases and resize re-clamping included.
C21_ButtonsMatchIndex ==
    /\ "choose" \in dom =>
          /\ choose.prevDisabled <=> (choose.currentIndex = 0)
          /\ choose.nextDisabled <=> (choose.currentIndex = choose.maxIndex)
    /\ ("benefits" \in dom /\ benefits.activated) =>
          /\ benefits.prevDisabled <=> (benefits.currentIndex = 0)
          /\ benefits.nextDisabled <=> (benefits.currentIndex = benefits.maxIndex)

\* A drag of the benefits track was released on the last of several slides,
\* away from the slide shown before it.
C21_Witness ==
    /\ "benefits" \in dom /\ benefits.activated
    /\ ~benefits.isDragging /\ benefits.currentTranslate # 0
    /\ benefits.maxIndex > 0
    /\ benefits.currentIndex = benefits.maxIndex
    /\ benefits.nextDisabled /\ ~benefits.prevDisabled

\* The object's own state, without the count of init() calls.
Fields_EB(slider) == [slider EXCEPT !.initCalls = 0]

\* C22: activation of the benefits slider is idempotent.  However often init()
\* is called, by the observer callback or by another script, one set of
\* listeners and one resize handler are attached; a call on the activated
\* slider changes nothing, one next click is one run of goToNext, and one
\* resize leaves one pending recomputation, which runs once.
C22_ActivationIdempotent ==
    /\ [](/\ benefits.listeners <= 1
          /\ benefits.activated <=> (benefits.listeners = 1)
          /\ Len(benefits.resizeTimer.timers) <= 1)
    /\ [][/\ ((BenefitsInitCall \/ ObserverCallback) /\ benefits.activated)
               => Fields_EB(benefits') = Fields_EB(benefits)
          /\ (BenefitsNextClick /\ benefits.activated)
               => benefits' = EB_goToNext(benefits, reducedMotion)
          /\ (Resize /\ benefits.activated)
               => Len(benefits'.resizeTimer.timers) = 1
          /\ (BenefitsResizeTimer /\ benefits.activated)
               => ~DB_pending(benefits'.resizeTimer)]_vars

\* init() has been called by the observer callback and by another script, and
\* a next click has since moved the slider by one.
C22_Witness ==
    /\ animateIn["exhibition-benefits"] = 1
    /\ benefits.initCalls >= 2
    /\ benefits.activated
    /\ benefits.currentIndex = 1

\* C23: in the benefits slider a press followed by a release with zero pointer
\* displacement (mouse down and up, or a tap on the track) leaves the index
\* unchanged, from every index reached by earlier operations.
C23_TapKeepsIndex ==
    [][/\ (MouseUp /\ benefits.isDragging
              /\ benefits.currentTranslate = benefits.prevTranslate)
            => benefits'.currentIndex = benefits.currentIndex
       /\ (BenefitsTouchEnd /\ benefits.isDragging
              /\ touch.x = benefits.startX
              /\ benefits.currentTranslate = benefits.prevTranslate)
            => benefits'.currentIndex = benefits.currentIndex]_vars

\* C24: in the hero slider, in every reachable state, no autoplay interval is
\* active while isPaused is true, at most one autoplay interval is active, and
\* none is active when the user prefers reduced motion.
C24_AutoplayRespectsPause ==
    "hero" \in dom =>
        /\ hero.isPaused => ~DB_pending(hero.autoplay)
        /\ Len(hero.autoplay.timers) <= 1
        /\ reducedMotion => ~DB_pending(hero.autoplay)

\* The slider was paused with the button after it had left its first slide,
\* and the pointer is not over it.
C24_Witness ==
    /\ "hero" \in dom /\ ~reducedMotion
    /\ hero.currentSlide = 1
    /\ hero.isPaused /\ ~hero.hovered
    /\ ~DB_pending(hero.autoplay)

\* C25: in the hero slider no autoplay interval is active, and autoplay does
\* not advance the slide, while the pointer is over the slider (between a
\* mouseenter and the matching mouseleave), whatever pause-button clicks or
\* space-key presses happen in between.
C25_NoAutoplayWhileHovered ==
    /\ []("hero" \in dom /\ hero.hovered => ~DB_pending(hero.autoplay))
    /\ [][HeroInterval => ~hero.hovered]_vars

\* The error messages shown for input f.
ErrorsOf(self, f) ==
    {i \in 1..Len(self.errors[self.parent[f]]) :
        self.errors[self.parent[f]][i].id = FV_errorId(f)}

\* C26: for every arrangement of the inputs under parent elements, two inputs
\* sharing one parent included, every input marked invalid has its own error
\* element present, the one its aria-describedby names, and validating an
\* input on blur or clearing it on input neither removes nor adds an error
\* message of another input.
C26_ErrorsAreFieldLocal ==
    /\ [](\A f \in form.invalid :
              /\ form.describedby[f] = FV_errorId(f)
              /\ ErrorShownFor(form, f))
    /\ [][\A f \in Fields : \A g \in Fields \ {f} :
              /\ (FormBlur /\ form' = FV_validateField(form, f))
                    => Cardinality(ErrorsOf(form', g)) = Cardinality(ErrorsOf(form, g))
              /\ (FormInput /\ form'.value[f] # form.value[f])
                    => Cardinality(ErrorsOf(form', g)) = Cardinality(ErrorsOf(form, g))]_vars

\* A submission is accepted: handleSubmit appends a confirmation message.
Accepted == FormSubmit /\ Len(form'.messages) = Len(form.messages) + 1

\* C27: a submission is accepted (confirmation shown, values logged, form
\* reset) only if every input of the form, required or not, passes the blur
\* check at that moment; no accepted submission holds a non-empty telephone
\* value that is not exactly ten digits.
C27_AcceptedOnlyIfAllFieldsPass ==
    [][Accepted =>
          /\ form'.logged
          /\ \A f \in Fields : ~FailsCheck(form, f)
          /\ \A f \in Fields :
                (FieldType[f] = "tel" /\ Trim(form.value[f]) # <<>>)
                    => TenDigits(Trim(form.value[f]))]_vars

====
